---------------------------- MODULE Spec2Model ----------------------------
(***************************************************************************)
(* A model of src/bot.py: the SMS poll-dedup-filter-forward pipeline       *)
(* (poll_sms), the shared configuration store (BotConfig / BotState) and   *)
(* the operator conversation (handle_message, handle_pending_input,        *)
(* start_forwarding, stop_forwarding).                                     *)
(*                                                                         *)
(* Texts are sequences of one-character strings, so that strip(), lower(), *)
(* split() and the substring test are computed, not assumed.  A coroutine  *)
(* is cut at its awaits of state.read(), state.update(), fetch_sms and     *)
(* send_message: each action is one such call together with the           *)
(* synchronous code that follows it up to the next await.                  *)
(***************************************************************************)
EXTENDS Integers, Sequences, FiniteSets, TLC

(***************************************************************************)
(* Bounds of the model.                                                    *)
(***************************************************************************)
MaxNeg == 1
MaxId == 2
MaxBatch == 2
MaxCount == 2

Ticks == {"t1", "t2"}
Ops == {"op1", "op2"}

(***************************************************************************)
(* Optional values: None is the empty tuple, Some(x) a one-element tuple.  *)
(***************************************************************************)
None == <<>>
Some(x) == <<x>>
Val(o) == o[1]

SetMin(S) == CHOOSE x \in S : \A y \in S : x <= y
SetMax(S) == CHOOSE x \in S : \A y \in S : x >= y
Max2(a, b) == IF a >= b THEN a ELSE b

(***************************************************************************)
(* Text functions of Python used by the code.                              *)
(***************************************************************************)
SPACE == " "
COMMA == ","
FWCOMMA == ";"

Lower(c) ==
    CASE c = "A" -> "a"
      [] c = "B" -> "b"
      [] c = "C" -> "c"
      [] OTHER -> c

LowerStr(s) == [i \in 1..Len(s) |-> Lower(s[i])]

Strip(s) ==
    LET keep == {i \in 1..Len(s) : s[i] # SPACE}
    IN  IF keep = {} THEN <<>> ELSE SubSeq(s, SetMin(keep), SetMax(keep))

IsSubstr(k, s) ==
    \E i \in 0..(Len(s) - Len(k)) : SubSeq(s, i + 1, i + Len(k)) = k

Replace(s, old, new) == [i \in 1..Len(s) |-> IF s[i] = old THEN new ELSE s[i]]

RECURSIVE Split(_, _)
Split(s, sep) ==
    LET at == {i \in 1..Len(s) : s[i] = sep}
    IN  IF at = {} THEN <<s>>
        ELSE <<SubSeq(s, 1, SetMin(at) - 1)>>
                 \o Split(SubSeq(s, SetMin(at) + 1, Len(s)), sep)

\* [kw.lower() for kw in ...] and [part.strip() for part in ...]
LowerAll(s) == [i \in 1..Len(s) |-> LowerStr(s[i])]
StripAll(s) == [i \in 1..Len(s) |-> Strip(s[i])]
Range(s) == {s[i] : i \in 1..Len(s)}


(***************************************************************************)
(* BotConfig: the dataclass and its defaults.                              *)
(***************************************************************************)
BotConfig ==
    [sms_tokens |-> <<>>,
     active_sms_token |-> None,
     target_chat_id |-> None,
     keywords |-> <<>>,
     last_seen_id |-> None,
     poll_interval |-> 5,
     forwarding_enabled |-> FALSE]

\* Python truthiness of an Optional[int] and of an Optional[str].
TruthyInt(o) == o # None /\ Val(o) # 0
TruthyStr(o) == o # None /\ Val(o) # <<>>

\* setattr(self.config, key, value) for every key of kwargs.
Patched(cfg, kwargs) ==
    [f \in DOMAIN cfg |-> IF f \in DOMAIN kwargs THEN kwargs[f] ELSE cfg[f]]

(***************************************************************************)
(* Messages of the source: a dict with "content" and, usually, "id".       *)
(***************************************************************************)
ContentOf(i) == IF i % 2 = 0 THEN <<"B", "a">> ELSE <<"c">>
Msg(i) == [id |-> i, content |-> ContentOf(i)]
NoIdMsg == [content |-> <<"B", "a">>]

HasId(msg) == "id" \in DOMAIN msg
\* msg.get("id")
GetId(msg) == IF HasId(msg) THEN Some(msg.id) ELSE None
\* item.get("id", 0), the sort key
SortKey(msg) == IF HasId(msg) THEN msg.id ELSE 0
\* msg.get("content", "")
GetContent(msg) == IF "content" \in DOMAIN msg THEN msg.content ELSE <<>>

\* list.sort(key=...): a stable sort, ascending by key.
RECURSIVE SortMessages(_)
SortMessages(ms) ==
    IF ms = <<>> THEN <<>>
    ELSE LET x == Head(ms)
             rest == SortMessages(Tail(ms))
             lower == SelectSeq(rest, LAMBDA m : SortKey(m) < SortKey(x))
             upper == SelectSeq(rest, LAMBDA m : SortKey(m) >= SortKey(x))
         IN  lower \o <<x>> \o upper

\* A variant of IsNew that also takes the message at the mark (>= for >).
IsNew_Inclusive(msg, last_seen_id) ==
    /\ HasId(msg)
    /\ (last_seen_id = None \/ msg.id >= Val(last_seen_id))

\* The qualifying test of the dedup loop.
IsNew(msg, last_seen_id) ==
    /\ HasId(msg)
    /\ (last_seen_id = None \/ msg.id > Val(last_seen_id))

\* new_messages: the sorted batch without the messages already seen.
NewMessages(messages, last_seen_id) ==
    SelectSeq(SortMessages(messages), LAMBDA m : IsNew(m, last_seen_id))

\* last_seen = config.last_seen_id or 0
InitialLastSeen(last_seen_id) ==
    IF last_seen_id = None THEN 0 ELSE Val(last_seen_id)

\* last_seen = max(last_seen, msg.get("id", last_seen))
NextLastSeen(last_seen, msg) ==
    Max2(last_seen, IF HasId(msg) THEN msg.id ELSE last_seen)

\* keywords and not any(kw in content.lower() for kw in keywords) is false
KeywordMatch(content, config_keywords) ==
    LET keywords == LowerAll(config_keywords)
    IN  \/ keywords = <<>>
        \/ \E i \in 1..Len(keywords) : IsSubstr(keywords[i], LowerStr(content))

(***************************************************************************)
(* State.                                                                  *)
(*   config      BotState.config, the Config in memory                     *)
(*   disk        the content of config.json                                *)
(*   jobs        the number of jobs registered under POLL_JOB_NAME         *)
(*   op          per operator: user_data["mode"] and the handler in flight *)
(*   tick        per run of poll_sms: its position and local variables     *)
(* History, written but never read by the program's actions:               *)
(*   attempts    per message id, the send_message calls of this process    *)
(*   sentBefore  the ids sent by earlier processes (before a restart)      *)
(*   failedDone  the ids whose delivery failed in a tick that has ended    *)
(*   prev        how the tick that ended last in this process ended        *)
(***************************************************************************)
VARIABLES config, disk, jobs, op, tick, attempts, sentBefore, failedDone, prev

vars == <<config, disk, jobs, op, tick, attempts, sentBefore, failedDone, prev>>

Ids == (0 - MaxNeg)..MaxId

\* mode: user_data["mode"]; pc, text, kwargs: the handler in flight, the text it
\* handles and the arguments of the state.update it awaits.
IdleOp == [mode |-> "none", pc |-> "idle", text |-> <<>>, kwargs |-> <<>>]

IdleTick ==
    [pc |-> "idle", config |-> BotConfig, messages |-> <<>>,
     new_messages |-> <<>>, i |-> 1, last_seen |-> 0, failed |-> {}, barred |-> {}]

\* how: "none", "skipped", "fetch_failed", "nothing_new" or "persisted";
\* ids: the ids of the batch; h: the mark the tick read; mark: the mark it left;
\* repeat: the batch held no id that the tick ended before it had not fetched,
\* and the tick read the mark which that tick left.
NoPrev == [how |-> "none", ids |-> {}, h |-> None, mark |-> None, repeat |-> FALSE]

IdsOf(messages) == {messages[i].id : i \in {j \in 1..Len(messages) : HasId(messages[j])}}

\* Sequences without repetition over S, of length at most n.
RECURSIVE Lists(_, _)
Lists(S, n) ==
    IF n = 0 THEN {<<>>}
    ELSE LET shorter == Lists(S, n - 1)
         IN  shorter \cup {Append(l, x) : l \in shorter, x \in S}

Batches(pool) == {b \in Lists(pool, MaxBatch) : Cardinality(Range(b)) = Len(b)}

(***************************************************************************)
(* BotState.update: setattr for every key, then save, under the lock.      *)
(***************************************************************************)
Update(kwargs) ==
    /\ config' = Patched(config, kwargs)
    /\ disk' = config'

(***************************************************************************)
(* poll_sms.                                                               *)
(***************************************************************************)
Ended(how, ids, h, mark) ==
    [how |-> how, ids |-> ids, h |-> h, mark |-> mark,
     repeat |-> /\ how \in {"nothing_new", "persisted"}
                /\ prev.how \in {"nothing_new", "persisted"}
                /\ ids \subseteq prev.ids
                /\ h = prev.mark]

EndTick(t, how, ids, h, mark) ==
    /\ tick' = [tick EXCEPT ![t] = IdleTick]
    /\ prev' = Ended(how, ids, h, mark)
    /\ failedDone' = failedDone \cup tick[t].failed

\* A variant of TickBegin without the guard: every tick goes on to its fetch.
TickBegin_NoGuard(t) ==
    /\ tick[t].pc = "idle"
    /\ jobs > 0
    /\ tick' = [tick EXCEPT ![t] =
                  [IdleTick EXCEPT !.pc = "fetch", !.config = config,
                                   !.barred = failedDone]]
    /\ UNCHANGED <<config, disk, jobs, op, attempts, sentBefore, prev, failedDone>>

\* config = await state.read(), and the guard on it.
TickBegin(t) ==
    /\ tick[t].pc = "idle"
    /\ jobs > 0
    /\ IF /\ config.forwarding_enabled
          /\ TruthyStr(config.active_sms_token)
          /\ TruthyInt(config.target_chat_id)
       THEN /\ tick' = [tick EXCEPT ![t] =
                          [IdleTick EXCEPT !.pc = "fetch", !.config = config,
                                           !.barred = failedDone]]
            /\ UNCHANGED <<prev, failedDone>>
       ELSE EndTick(t, "skipped", {}, None, None)
    /\ UNCHANGED <<config, disk, jobs, op, attempts, sentBefore>>

\* A variant of TickFetchFail that treats the failure as an empty inbox and
\* persists an unset mark.
TickFetchFail_ResetsMark(t) ==
    /\ tick[t].pc = "fetch"
    /\ Update([last_seen_id |-> None])
    /\ EndTick(t, "fetch_failed", {}, None, None)
    /\ UNCHANGED <<jobs, op, attempts, sentBefore>>

\* fetch_sms raises: the tick is skipped.
TickFetchFail(t) ==
    /\ tick[t].pc = "fetch"
    /\ EndTick(t, "fetch_failed", {}, None, None)
    /\ UNCHANGED <<config, disk, jobs, op, attempts, sentBefore>>

\* fetch_sms returns messages: sort, select the new ones.
TickFetch(t, messages) ==
    /\ tick[t].pc = "fetch"
    /\ LET h == tick[t].config.last_seen_id
           new_messages == NewMessages(messages, h)
       IN  IF messages = <<>> \/ new_messages = <<>>
           THEN EndTick(t, "nothing_new", IdsOf(messages), h, h)
           ELSE /\ tick' = [tick EXCEPT ![t].pc = "forward",
                                        ![t].messages = SortMessages(messages),
                                        ![t].new_messages = new_messages,
                                        ![t].last_seen = InitialLastSeen(h)]
                /\ UNCHANGED <<prev, failedDone>>
    /\ UNCHANGED <<config, disk, jobs, op, attempts, sentBefore>>

\* A variant of TickForward that persists the mark after every message.
TickForward_PersistsEach(t, delivered) ==
    /\ tick[t].pc = "forward"
    /\ LET msg == tick[t].new_messages[tick[t].i]
           last == tick[t].i = Len(tick[t].new_messages)
           sends == KeywordMatch(GetContent(msg), tick[t].config.keywords)
       IN  /\ sends \/ delivered
           /\ tick' = [tick EXCEPT
                         ![t].pc = IF last THEN "update" ELSE "forward",
                         ![t].i = tick[t].i + 1,
                         ![t].last_seen = NextLastSeen(tick[t].last_seen, msg),
                         ![t].failed = IF sends /\ ~delivered
                                       THEN tick[t].failed \cup {msg.id}
                                       ELSE tick[t].failed]
           /\ attempts' = IF sends
                          THEN [attempts EXCEPT ![msg.id] =
                                   IF @ < MaxCount THEN @ + 1 ELSE @]
                          ELSE attempts
           /\ Update([last_seen_id |-> Some(NextLastSeen(tick[t].last_seen, msg))])
    /\ UNCHANGED <<jobs, op, sentBefore, failedDone, prev>>

\* One iteration of the forwarding loop, on new_messages[i].  delivered is the
\* outcome of send_message; a message that no keyword matches is not sent, and
\* has no outcome.
TickForward(t, delivered) ==
    /\ tick[t].pc = "forward"
    /\ LET msg == tick[t].new_messages[tick[t].i]
           last == tick[t].i = Len(tick[t].new_messages)
           sends == KeywordMatch(GetContent(msg), tick[t].config.keywords)
       IN  /\ sends \/ delivered
           /\ tick' = [tick EXCEPT
                         ![t].pc = IF last THEN "update" ELSE "forward",
                         ![t].i = tick[t].i + 1,
                         ![t].last_seen = NextLastSeen(tick[t].last_seen, msg),
                         ![t].failed = IF sends /\ ~delivered
                                       THEN tick[t].failed \cup {msg.id}
                                       ELSE tick[t].failed]
           /\ attempts' = IF sends
                          THEN [attempts EXCEPT ![msg.id] =
                                   IF @ < MaxCount THEN @ + 1 ELSE @]
                          ELSE attempts
    /\ UNCHANGED <<config, disk, jobs, op, sentBefore, failedDone, prev>>

\* A variant of TickUpdate that saves the snapshot the tick read, with the mark.
TickUpdate_SavesSnapshot(t) ==
    /\ tick[t].pc = "update"
    /\ config' = Patched(tick[t].config, [last_seen_id |-> Some(tick[t].last_seen)])
    /\ disk' = config'
    /\ EndTick(t, "persisted", IdsOf(tick[t].messages),
               tick[t].config.last_seen_id, Some(tick[t].last_seen))
    /\ UNCHANGED <<jobs, op, attempts, sentBefore>>

\* await state.update(last_seen_id=last_seen)
TickUpdate(t) ==
    /\ tick[t].pc = "update"
    /\ Update([last_seen_id |-> Some(tick[t].last_seen)])
    /\ EndTick(t, "persisted", IdsOf(tick[t].messages),
               tick[t].config.last_seen_id, Some(tick[t].last_seen))
    /\ UNCHANGED <<jobs, op, attempts, sentBefore>>

(***************************************************************************)
(* The operators' inputs.  A menu label is a text of one reserved          *)
(* character; RETURN_MENU is the label of the "return to menu" button.     *)
(***************************************************************************)
ADD_LABEL == <<"+">>
CHOOSE_LABEL == <<"%">>
DELETE_LABEL == <<"!">>
CHAT_LABEL == <<"#">>
KEYWORDS_LABEL == <<"?">>
START_LABEL == <<">">>
STOP_LABEL == <<".">>
SHOW_LABEL == <<"i">>
RETURN_MENU == <<"<">>

Senders == Ops \cup {"guest"}
ADMIN_USER_IDS == Ops

\* A variant of is_authorized that lets every sender in.
IsAuthorized_Open(u) == u \in Senders

\* is_authorized
IsAuthorized(u) == ADMIN_USER_IDS = {} \/ u \in ADMIN_USER_IDS

Digits == {"0", "7"}
DigitValue(c) == IF c = "7" THEN 7 ELSE 0

RECURSIVE Number(_)
Number(s) == IF s = <<>> THEN 0 ELSE 10 * Number(SubSeq(s, 1, Len(s) - 1)) + DigitValue(s[Len(s)])

\* int(value): None stands for ValueError.
ParseInt(s) ==
    LET t == Strip(s)
        signed == t # <<>> /\ t[1] \in {"-", "+"}
        digits == IF signed THEN Tail(t) ELSE t
    IN  IF digits = <<>> \/ \E i \in 1..Len(digits) : digits[i] \notin Digits
        THEN None
        ELSE Some(IF signed /\ t[1] = "-" THEN 0 - Number(digits) ELSE Number(digits))

\* resolve_chat_id; lookup is what bot.get_chat answers (None: it raises).
ResolveChatId(text, lookup) ==
    LET value == Strip(text)
    IN  IF value # <<>> /\ value[1] = "@" THEN lookup ELSE ParseInt(value)

\* The keyword list of set_keywords.
ParseKeywords(text) ==
    LET normalized == Replace(text, FWCOMMA, COMMA)
        parts == Split(normalized, COMMA)
    IN  StripAll(SelectSeq(parts, LAMBDA part : Strip(part) # <<>>))

Pop(u) == [op EXCEPT ![u] = IdleOp]
Await(u, pc, text, kwargs) ==
    [op EXCEPT ![u].pc = pc, ![u].text = text, ![u].kwargs = kwargs]
Done(u) == [op EXCEPT ![u].pc = "idle", ![u].text = <<>>, ![u].kwargs = <<>>]

Frame == UNCHANGED <<config, disk, jobs, tick, attempts, sentBefore, failedDone, prev>>

(***************************************************************************)
(* handle_pending_input, up to its first await of state.update.            *)
(***************************************************************************)
PendingInput(u, mode, text, lookup) ==
    CASE mode = "add_sms_token" ->
           LET token == Strip(text)
               tokens == IF token \in Range(config.sms_tokens)
                         THEN config.sms_tokens
                         ELSE Append(config.sms_tokens, token)
           IN  /\ op' = IF token = <<>> THEN op
                        ELSE Await(u, "add_update", text,
                                   [sms_tokens |-> tokens,
                                    active_sms_token |-> Some(token)])
               /\ Frame
      [] mode = "set_chat_id" ->
           LET chat_id == ResolveChatId(text, lookup)
           IN  IF chat_id = None
               THEN UNCHANGED vars
               ELSE /\ Update([target_chat_id |-> chat_id])
                    /\ op' = Pop(u)
                    /\ UNCHANGED <<jobs, tick, attempts, sentBefore, failedDone, prev>>
      [] mode = "set_keywords" ->
           /\ Update([keywords |-> ParseKeywords(text)])
           /\ op' = Pop(u)
           /\ UNCHANGED <<jobs, tick, attempts, sentBefore, failedDone, prev>>
      [] mode = "select_sms_token" ->
           /\ op' = IF text = RETURN_MENU THEN Pop(u)
                    ELSE IF text \notin Range(config.sms_tokens) THEN op
                    ELSE Await(u, "select_update", text,
                               [active_sms_token |-> Some(text)])
           /\ Frame
      [] mode = "delete_sms_token" ->
           LET tokens == SelectSeq(config.sms_tokens, LAMBDA t : t # text)
               active == IF config.active_sms_token = Some(text)
                         THEN IF tokens # <<>> THEN Some(tokens[1]) ELSE None
                         ELSE config.active_sms_token
           IN  /\ op' = IF text = RETURN_MENU THEN Pop(u)
                        ELSE IF text \notin Range(config.sms_tokens) THEN op
                        ELSE Await(u, "delete_update", text,
                                   [sms_tokens |-> tokens, active_sms_token |-> active])
               /\ Frame
      [] OTHER ->
           /\ op' = Pop(u)
           /\ Frame

\* The second half of the add, select and delete branches:
\* await state.update(...), then context.user_data.pop("mode").
AddUpdate(u) ==
    /\ op[u].pc = "add_update"
    /\ Update(op[u].kwargs)
    /\ op' = Pop(u)
    /\ UNCHANGED <<jobs, tick, attempts, sentBefore, failedDone, prev>>

SelectUpdate(u) ==
    /\ op[u].pc = "select_update"
    /\ Update(op[u].kwargs)
    /\ op' = Pop(u)
    /\ UNCHANGED <<jobs, tick, attempts, sentBefore, failedDone, prev>>

\* A variant of DeleteUpdate that writes the list and leaves the active token.
DeleteUpdate_KeepsActive(u) ==
    /\ op[u].pc = "delete_update"
    /\ Update([sms_tokens |-> op[u].kwargs.sms_tokens])
    /\ op' = Pop(u)
    /\ UNCHANGED <<jobs, tick, attempts, sentBefore, failedDone, prev>>

DeleteUpdate(u) ==
    /\ op[u].pc = "delete_update"
    /\ Update(op[u].kwargs)
    /\ op' = Pop(u)
    /\ UNCHANGED <<jobs, tick, attempts, sentBefore, failedDone, prev>>

(***************************************************************************)
(* The menu handlers.                                                      *)
(***************************************************************************)
SetMode(u, mode) == [op EXCEPT ![u].mode = mode]

\* ask_sms_token, ask_chat_id, ask_keywords
Ask(u, mode) ==
    /\ op' = SetMode(u, mode)
    /\ Frame

\* choose_sms_token, delete_sms_token: read, then list the tokens if there are any.
ListTokens(u, mode) ==
    /\ op' = IF config.sms_tokens = <<>> THEN op ELSE SetMode(u, mode)
    /\ Frame

\* A variant of StartForwarding that registers a job without looking for one.
StartForwarding_Duplicate(u) ==
    IF ~TruthyStr(config.active_sms_token) \/ ~TruthyInt(config.target_chat_id)
    THEN UNCHANGED vars
    ELSE /\ jobs' = jobs + 1
         /\ op' = Await(u, "start_update", START_LABEL, [forwarding_enabled |-> TRUE])
         /\ UNCHANGED <<config, disk, tick, attempts, sentBefore, failedDone, prev>>

\* A variant of StartForwarding without the two preconditions.
StartForwarding_Unchecked(u) ==
    /\ jobs' = IF jobs = 0 THEN jobs + 1 ELSE jobs
    /\ op' = Await(u, "start_update", START_LABEL, [forwarding_enabled |-> TRUE])
    /\ UNCHANGED <<config, disk, tick, attempts, sentBefore, failedDone, prev>>

\* start_forwarding up to its await of state.update: the read, the two
\* preconditions and the registration of the job.
StartForwarding(u) ==
    IF ~TruthyStr(config.active_sms_token) \/ ~TruthyInt(config.target_chat_id)
    THEN UNCHANGED vars
    ELSE /\ jobs' = IF jobs = 0 THEN jobs + 1 ELSE jobs
         /\ op' = Await(u, "start_update", START_LABEL, [forwarding_enabled |-> TRUE])
         /\ UNCHANGED <<config, disk, tick, attempts, sentBefore, failedDone, prev>>

\* await state.update(forwarding_enabled=True)
StartUpdate(u) ==
    /\ op[u].pc = "start_update"
    /\ Update(op[u].kwargs)
    /\ op' = Done(u)
    /\ UNCHANGED <<jobs, tick, attempts, sentBefore, failedDone, prev>>

\* A variant of StopForwarding that also cancels the ticks in flight.
StopForwarding_Cancels(u) ==
    /\ jobs' = 0
    /\ tick' = [t \in Ticks |-> IdleTick]
    /\ op' = Await(u, "stop_update", STOP_LABEL, [forwarding_enabled |-> FALSE])
    /\ UNCHANGED <<config, disk, attempts, sentBefore, failedDone, prev>>

\* stop_forwarding up to its await of state.update: every job is removed.
StopForwarding(u) ==
    /\ jobs' = 0
    /\ op' = Await(u, "stop_update", STOP_LABEL, [forwarding_enabled |-> FALSE])
    /\ UNCHANGED <<config, disk, tick, attempts, sentBefore, failedDone, prev>>

\* await state.update(forwarding_enabled=False)
StopUpdate(u) ==
    /\ op[u].pc = "stop_update"
    /\ Update(op[u].kwargs)
    /\ op' = Done(u)
    /\ UNCHANGED <<jobs, tick, attempts, sentBefore, failedDone, prev>>

\* back_to_menu
BackToMenu(u) ==
    /\ op' = [op EXCEPT ![u].mode = "none"]
    /\ Frame

\* handle_message: the authorization, the pending action, the menu.
HandleMessage(u, raw, lookup) ==
    /\ op[u].pc = "idle"
    /\ LET text == Strip(raw)
           pending == op[u].mode
       IN  IF ~IsAuthorized(u) THEN UNCHANGED vars
           ELSE IF pending # "none" THEN PendingInput(u, pending, text, lookup)
           ELSE CASE text = ADD_LABEL -> Ask(u, "add_sms_token")
                  [] text = CHOOSE_LABEL -> ListTokens(u, "select_sms_token")
                  [] text = DELETE_LABEL -> ListTokens(u, "delete_sms_token")
                  [] text = CHAT_LABEL -> Ask(u, "set_chat_id")
                  [] text = KEYWORDS_LABEL -> Ask(u, "set_keywords")
                  [] text = START_LABEL -> StartForwarding(u)
                  [] text = STOP_LABEL -> StopForwarding(u)
                  [] text = SHOW_LABEL -> UNCHANGED vars
                  [] text = RETURN_MENU -> BackToMenu(u)
                  [] OTHER -> UNCHANGED vars

\* handle_start (/start, /menu): context.user_data.clear()
HandleStart(u) ==
    /\ op[u].pc = "idle"
    /\ IF ~IsAuthorized(u) THEN UNCHANGED vars
       ELSE /\ op' = [op EXCEPT ![u].mode = "none"]
            /\ Frame

(***************************************************************************)
(* The process ends, at any point, and a new one starts: BotState.__init__ *)
(* loads config.json; the job queue, user_data and every coroutine in      *)
(* flight are gone.                                                        *)
(***************************************************************************)
Restart ==
    /\ config' = disk
    /\ jobs' = 0
    /\ op' = [u \in Senders |-> IdleOp]
    /\ tick' = [t \in Ticks |-> IdleTick]
    /\ sentBefore' = sentBefore \cup {i \in Ids : attempts[i] > 0}
    /\ attempts' = [i \in Ids |-> 0]
    /\ prev' = NoPrev
    /\ UNCHANGED <<disk, failedDone>>

(***************************************************************************)
(* Spec: the pipeline.  The operators have configured a token and a        *)
(* destination; they start and stop the forwarding while ticks run.        *)
(***************************************************************************)
TOKEN_A == <<"A">>
TOKEN_B == <<"B">>
KEYWORD_BA == <<"b", "A">>

Configured(keywords) ==
    [BotConfig EXCEPT !.sms_tokens = <<TOKEN_A>>,
                      !.active_sms_token = Some(TOKEN_A),
                      !.target_chat_id = Some(7),
                      !.keywords = keywords]

InitHistory ==
    /\ attempts = [i \in Ids |-> 0]
    /\ sentBefore = {}
    /\ failedDone = {}
    /\ prev = NoPrev

Init ==
    /\ config \in {Configured(<<>>), Configured(<<KEYWORD_BA>>)}
    /\ disk = config
    /\ jobs = 0
    /\ op = [u \in Senders |-> IdleOp]
    /\ tick = [t \in Ticks |-> IdleTick]
    /\ InitHistory

PollPool == {Msg(i) : i \in 1..MaxId}
PollInputs == {START_LABEL, STOP_LABEL}
OneTick == {"t1"}

StartStop ==
    \/ \E u \in Ops, raw \in PollInputs : HandleMessage(u, raw, None)
    \/ \E u \in Ops : StartUpdate(u)
    \/ \E u \in Ops : StopUpdate(u)

Poll(ticks, pool) ==
    \/ \E t \in ticks : TickBegin(t)
    \/ \E t \in ticks : TickFetchFail(t)
    \/ \E t \in ticks, messages \in Batches(pool) : TickFetch(t, messages)
    \/ \E t \in ticks, delivered \in BOOLEAN : TickForward(t, delivered)
    \/ \E t \in ticks : TickUpdate(t)

Next ==
    \/ StartStop
    \/ Poll(OneTick, PollPool)
    \/ Restart

Spec == Init /\ [][Next]_vars

(***************************************************************************)
(* SpecOverlap: the same pipeline with two runs of poll_sms in flight: the *)
(* job fires again, or is registered again after a stop, while a tick is   *)
(* still waiting for its fetch or for a send.                              *)
(***************************************************************************)
NextOverlap ==
    \/ \E raw \in PollInputs : HandleMessage("op1", raw, None)
    \/ StartUpdate("op1")
    \/ StopUpdate("op1")
    \/ Poll(Ticks, PollPool)

SpecOverlap == Init /\ [][NextOverlap]_vars

(***************************************************************************)
(* SpecTick: one poll_sms at a time, over every batch of a source whose    *)
(* ids may be negative or zero and which may hold a message without id.    *)
(***************************************************************************)
TickPool == {Msg(i) : i \in Ids} \cup {NoIdMsg}

NextTick ==
    \/ \E raw \in PollInputs : HandleMessage("op1", raw, None)
    \/ StartUpdate("op1")
    \/ StopUpdate("op1")
    \/ Poll(OneTick, TickPool)

SpecTick == Init /\ [][NextTick]_vars

(***************************************************************************)
(* SpecMenu: the conversation about the tokens.  Two operators and a       *)
(* sender outside the allow-list send texts; a handler that has read       *)
(* Config and awaits its update can be overtaken by the handler of another *)
(* operator.  The texts offered depend on what the sender is asked for.    *)
(***************************************************************************)
BLANK == <<SPACE>>
PADDED_B == <<SPACE, "B", SPACE>>
OTHER_TEXT == <<"z">>

TokenInputs(mode) ==
    CASE mode = "add_sms_token" -> {TOKEN_A, PADDED_B, BLANK, RETURN_MENU}
      [] mode = "select_sms_token" -> {TOKEN_A, TOKEN_B, RETURN_MENU}
      [] mode = "delete_sms_token" -> {TOKEN_A, TOKEN_B, RETURN_MENU}
      [] OTHER -> {ADD_LABEL, CHOOSE_LABEL, DELETE_LABEL, SHOW_LABEL,
                   RETURN_MENU, OTHER_TEXT}

InitMenu ==
    /\ config = BotConfig
    /\ disk = config
    /\ jobs = 0
    /\ op = [u \in Senders |-> IdleOp]
    /\ tick = [t \in Ticks |-> IdleTick]
    /\ InitHistory

NextMenu ==
    \/ \E u \in Senders :
          \E raw \in TokenInputs(op[u].mode) : HandleMessage(u, raw, None)
    \/ \E u \in Senders : HandleStart(u)
    \/ \E u \in Ops : AddUpdate(u)
    \/ \E u \in Ops : SelectUpdate(u)
    \/ \E u \in Ops : DeleteUpdate(u)

SpecMenu == InitMenu /\ [][NextMenu]_vars

(***************************************************************************)
(* SpecSettings: the conversation about the destination and the keywords.  *)
(***************************************************************************)
CHAT_7 == <<"7">>
CHAT_MINUS_70 == <<"-", "7", "0">>
CHAT_0 == <<SPACE, "0">>
CHAT_HANDLE == <<"@", "g">>
KEYWORDS_TEXT == <<"c", FWCOMMA, SPACE, "B", "A", COMMA>>
KEYWORD_TEXT == <<"b", "a">>

SettingInputs(mode) ==
    CASE mode = "set_chat_id" ->
             {CHAT_7, CHAT_MINUS_70, CHAT_0, CHAT_HANDLE, OTHER_TEXT, RETURN_MENU}
      [] mode = "set_keywords" -> {KEYWORDS_TEXT, KEYWORD_TEXT, BLANK, RETURN_MENU}
      [] OTHER -> {CHAT_LABEL, KEYWORDS_LABEL, SHOW_LABEL, RETURN_MENU, OTHER_TEXT}

\* What bot.get_chat may answer for a handle; it is called for a handle only.
Lookups == {None, Some(9)}
LookupsFor(raw) == IF Strip(raw) # <<>> /\ Strip(raw)[1] = "@" THEN Lookups ELSE {None}

NextSettings ==
    \/ \E u \in Senders :
          \E raw \in SettingInputs(op[u].mode) :
             \E lookup \in LookupsFor(raw) : HandleMessage(u, raw, lookup)
    \/ \E u \in Senders : HandleStart(u)

SpecSettings == InitMenu /\ [][NextSettings]_vars

(***************************************************************************)
(* What a step did, read off the two states of the step.                   *)
(***************************************************************************)
\* The tick t called send_message for the message id i in this step.
Sent(t, i) ==
    /\ tick[t].pc = "forward"
    /\ tick'[t].pc \in {"forward", "update"}
    /\ tick'[t].i = tick[t].i + 1
    /\ tick[t].new_messages[tick[t].i].id = i
    /\ KeywordMatch(GetContent(tick[t].new_messages[tick[t].i]), tick[t].config.keywords)

\* The tick t ended in this step, in the way how.
EndedAs(t, how) ==
    /\ tick[t].pc # "idle"
    /\ tick'[t].pc = "idle"
    /\ prev'.how = how

\* a <= b for two marks, an unset mark being below every id.
MarkLeq(a, b) == a = None \/ (b # None /\ Val(a) <= Val(b))

\* The ascending sequence of the integers of S.
RECURSIVE Ascending(_)
Ascending(S) ==
    IF S = {} THEN <<>> ELSE <<SetMin(S)>> \o Ascending(S \ {SetMin(S)})

(***************************************************************************)
(* C1: over one run of the process every message id is sent at most once,  *)
(* also when two ticks overlap.                                            *)
(***************************************************************************)
C1_SentAtMostOnce == \A i \in Ids : attempts[i] <= 1

(***************************************************************************)
(* C2: the persisted last_seen_id never decreases: every update writes a   *)
(* mark that is at least the mark stored just before it.                   *)
(***************************************************************************)
C2_MarkNeverDecreases == [][MarkLeq(disk.last_seen_id, disk'.last_seen_id)]_vars

(***************************************************************************)
(* C4: a message id sent before a restart is not sent again after it.      *)
(***************************************************************************)
C4_NotSentAgainAfterRestart == \A i \in Ids : ~(i \in sentBefore /\ attempts[i] > 0)

(***************************************************************************)
(* C7: the qualifying set of a tick is exactly the messages of the batch   *)
(* with an id above the mark h the tick read (all of them when h is        *)
(* unset), in ascending id order; the tick persists max(h, largest         *)
(* qualifying id), the largest qualifying id when h is unset; a tick       *)
(* without qualifying message leaves the mark as it is.                    *)
(***************************************************************************)
Qualifying(ids, h) == {i \in ids : h = None \/ i > Val(h)}

ClaimedMark(ids, h) ==
    IF h = None THEN SetMax(Qualifying(ids, h))
    ELSE Max2(Val(h), SetMax(Qualifying(ids, h)))

C7_Selected(t) ==
    (tick[t].pc = "fetch" /\ tick'[t].pc = "forward")
        => [i \in 1..Len(tick'[t].new_messages) |-> tick'[t].new_messages[i].id]
             = Ascending(Qualifying(IdsOf(tick'[t].messages), tick[t].config.last_seen_id))

C7_Unchanged(t) ==
    EndedAs(t, "nothing_new")
        => /\ Qualifying(prev'.ids, prev'.h) = {}
           /\ disk' = disk

C7_Persisted(t) ==
    EndedAs(t, "persisted")
        => /\ Qualifying(prev'.ids, prev'.h) # {}
           /\ disk'.last_seen_id = Some(ClaimedMark(prev'.ids, prev'.h))

C7_SelectAndMark ==
    [][\A t \in Ticks : C7_Selected(t) /\ C7_Unchanged(t) /\ C7_Persisted(t)]_vars

(***************************************************************************)
(* C8: a tick that fetches a batch whose ids were all in the batch of the  *)
(* tick that ended before it, and that read the mark which that tick left, *)
(* has no qualifying message: it sends nothing and changes no Config.      *)
(***************************************************************************)
Fetched(t) ==
    /\ tick[t].pc = "fetch"
    /\ tick'[t].pc = "forward" \/ EndedAs(t, "nothing_new")

FetchedIds(t) ==
    IF tick'[t].pc = "forward" THEN IdsOf(tick'[t].messages) ELSE prev'.ids

C8_RepeatedBatchIsIdle ==
    [][\A t \in Ticks :
          ( /\ Fetched(t)
            /\ prev.how \in {"nothing_new", "persisted"}
            /\ FetchedIds(t) \subseteq prev.ids
            /\ tick[t].config.last_seen_id = prev.mark )
          => ( /\ EndedAs(t, "nothing_new")
               /\ config' = config
               /\ disk' = disk
               /\ attempts' = attempts )]_vars

C8_Witness ==
    /\ prev.repeat
    /\ prev.how = "nothing_new"
    /\ prev.ids # {}

(***************************************************************************)
(* C9: a failed delivery does not stop the tick, which goes on with the    *)
(* next message of the batch; the mark the tick persists is at least the   *)
(* id of the message whose delivery failed; and no tick that begins after  *)
(* the tick has ended sends that message again.                            *)
(***************************************************************************)
C9_GoesOn(t) ==
    (tick'[t].pc # "idle" /\ tick'[t].failed # tick[t].failed)
        => /\ tick'[t].pc \in {"forward", "update"}
           /\ tick'[t].i = tick[t].i + 1
           /\ tick'[t].new_messages = tick[t].new_messages
           /\ (tick'[t].pc = "update") = (tick[t].i = Len(tick[t].new_messages))

C9_MarkPastFailed(t) ==
    EndedAs(t, "persisted")
        => \A i \in tick[t].failed : MarkLeq(Some(i), disk'.last_seen_id)

C9_NotSentAgain(t) ==
    \A i \in Ids : Sent(t, i) => i \notin tick[t].barred

C9_FailedDeliveryIsFinal ==
    [][\A t \in Ticks :
          C9_GoesOn(t) /\ C9_MarkPastFailed(t) /\ C9_NotSentAgain(t)]_vars

(***************************************************************************)
(* C10: a tick whose fetch fails has sent nothing, changes no field of     *)
(* Config, in memory or on disk, and leaves the registration of the job as *)
(* it was.                                                                 *)
(***************************************************************************)
C10_FetchFailureSkipsTick ==
    [][\A t \in Ticks :
          EndedAs(t, "fetch_failed")
          => ( /\ tick[t].pc = "fetch"
               /\ tick[t].i = 1
               /\ attempts' = attempts
               /\ config' = config
               /\ disk' = disk
               /\ jobs' = jobs )]_vars

C10_Witness ==
    /\ prev.how = "fetch_failed"
    /\ config.last_seen_id # None
    /\ jobs > 0

(***************************************************************************)
(* C3: active_sms_token is unset or one of sms_tokens, in every state, and *)
(* so in every snapshot read() returns, however the handlers of different  *)
(* operators interleave at their awaits.                                   *)
(***************************************************************************)
C3_ActiveIsListed ==
    \/ config.active_sms_token = None
    \/ Val(config.active_sms_token) \in Range(config.sms_tokens)

(***************************************************************************)
(* C5: operator mutations serialize over their read-modify-persist         *)
(* section, so that an AddToken, which run alone only ever adds a token,   *)
(* removes none: two concurrent AddToken with distinct tokens leave both   *)
(* tokens in sms_tokens.                                                   *)
(***************************************************************************)
C5_ConcurrentAddsKeepBothTokens ==
    [][\A u \in Ops :
          (op[u].pc = "add_update" /\ op'[u].pc = "idle")
          => Range(config.sms_tokens) \subseteq Range(config'.sms_tokens)]_vars

(***************************************************************************)
(* C6: in every pending action the "return to menu" input clears the       *)
(* pending action of the sender and changes no field of Config: when the   *)
(* handler of that input ends, the sender is at the menu and Config is as  *)
(* it was.                                                                 *)
(***************************************************************************)
ReturnHandled(u) ==
    /\ op[u].mode # "none"
    /\ op'[u].pc = "idle"
    /\ \/ op[u].pc = "idle" /\ HandleMessage(u, RETURN_MENU, None)
       \/ op[u].pc # "idle" /\ op[u].text = RETURN_MENU

C6_ReturnCancels ==
    [][\A u \in Ops :
          ReturnHandled(u)
          => ( /\ op'[u].mode = "none"
               /\ config' = config
               /\ disk' = disk )]_vars

(***************************************************************************)
(* SpecAdmin: the whole program with one operator and a sender outside the *)
(* allow-list.  The operator configures tokens and the destination, starts *)
(* and stops the forwarding, while ticks run.                                  *)
(***************************************************************************)
AdminBatches == {<<>>, <<Msg(1)>>}

AdminInputs(mode) ==
    CASE mode = "add_sms_token" -> {TOKEN_A, TOKEN_B}
      [] mode = "select_sms_token" -> {TOKEN_A, TOKEN_B, RETURN_MENU}
      [] mode = "delete_sms_token" -> {TOKEN_A, TOKEN_B, RETURN_MENU}
      [] mode = "set_chat_id" -> {CHAT_7, CHAT_0, OTHER_TEXT}
      [] OTHER -> {ADD_LABEL, CHOOSE_LABEL, DELETE_LABEL, CHAT_LABEL,
                   START_LABEL, STOP_LABEL, SHOW_LABEL}

AdminSenders == {"op1", "guest"}

NextAdmin ==
    \/ \E u \in AdminSenders :
          \E raw \in AdminInputs(op[u].mode) : HandleMessage(u, raw, None)
    \/ \E u \in AdminSenders : HandleStart(u)
    \/ AddUpdate("op1")
    \/ SelectUpdate("op1")
    \/ DeleteUpdate("op1")
    \/ StartUpdate("op1")
    \/ StopUpdate("op1")
    \/ TickBegin("t1")
    \/ TickFetchFail("t1")
    \/ \E messages \in AdminBatches : TickFetch("t1", messages)
    \/ \E delivered \in BOOLEAN : TickForward("t1", delivered)
    \/ TickUpdate("t1")

SpecAdmin == InitMenu /\ [][NextAdmin]_vars

(***************************************************************************)
(* C11: a tick that reads a Config with forwarding_enabled false, or with  *)
(* no active token or no destination, does not go on to its fetch, and the *)
(* step in which it returns sends nothing and changes no Config.           *)
(***************************************************************************)
C11_NotReady ==
    \/ ~config.forwarding_enabled
    \/ config.active_sms_token = None
    \/ config.target_chat_id = None

\* A tick began and returned at its guard in this step.
C11_Skipped ==
    /\ tick' = tick
    /\ prev' # prev
    /\ prev'.how = "skipped"

C11_SkippedTickIsIdle ==
    [][/\ \A t \in Ticks :
             (tick[t].pc = "idle" /\ C11_NotReady) => tick'[t].pc = "idle"
       /\ C11_Skipped => ( /\ config' = config
                           /\ disk' = disk
                           /\ attempts' = attempts
                           /\ jobs' = jobs )]_vars

C11_Witness ==
    /\ prev.how = "skipped"
    /\ jobs > 0
    /\ config.forwarding_enabled
    /\ config.active_sms_token = None

(***************************************************************************)
(* C12: start_forwarding called while no token is active or no destination *)
(* is set changes nothing: from every such state, no run of the handler    *)
(* on the start button changes Config (forwarding_enabled included), the   *)
(* disk, the registration of the job or the pending action.                *)
(***************************************************************************)
C12_AtMenu(u) == op[u].pc = "idle" /\ op[u].mode = "none"

C12_Unmet == config.active_sms_token = None \/ config.target_chat_id = None

C12_RefusedStartChangesNothing ==
    \A u \in Ops :
       (C12_AtMenu(u) /\ C12_Unmet)
       => ~ENABLED ( /\ HandleMessage(u, START_LABEL, None)
                     /\ ~( /\ config' = config
                           /\ disk' = disk
                           /\ jobs' = jobs
                           /\ op' = op ) )

C12_Witness ==
    /\ C12_AtMenu("op1")
    /\ config.active_sms_token = None
    /\ config.target_chat_id # None
    /\ config.forwarding_enabled
    /\ ENABLED HandleMessage("op1", START_LABEL, None)

(***************************************************************************)
(* C13: at most one job is registered under POLL_JOB_NAME in every state,  *)
(* however the starts and stops of the operators interleave.               *)
(***************************************************************************)
C13_AtMostOneJob == jobs <= 1

\* Both operators have passed the registration of their start, and one job
\* is registered: the second start found the job of the first.
C13_Witness ==
    /\ jobs = 1
    /\ \A u \in Ops : op[u].pc = "start_update"

(***************************************************************************)
(* C14: a delete of a listed token t that succeeds removes t from          *)
(* sms_tokens and keeps the order of the other tokens; when t was the      *)
(* active token, the first token that is left becomes active, or none when *)
(* the list is empty; otherwise the active token stays.                    *)
(***************************************************************************)
C14_Deleted(u) == op[u].pc = "delete_update" /\ op'[u].pc = "idle"

C14_Without(tokens, t) == SelectSeq(tokens, LAMBDA x : x # t)

C14_DeleteRemovesAndReassigns ==
    [][\A u \in Ops :
          C14_Deleted(u)
          => LET t == op[u].text
                 left == C14_Without(config.sms_tokens, t)
             IN  /\ t \in Range(config.sms_tokens)
                 /\ config'.sms_tokens = left
                 /\ config'.active_sms_token =
                       IF config.active_sms_token # Some(t)
                       THEN config.active_sms_token
                       ELSE IF left = <<>> THEN None ELSE Some(left[1])
                 /\ op'[u].mode = "none"]_vars

\* The delete of the active token A of the list [A, B] is about to write.
C14_Witness ==
    /\ op["op1"].pc = "delete_update"
    /\ op["op1"].text = TOKEN_A
    /\ config.sms_tokens = <<TOKEN_A, TOKEN_B>>
    /\ config.active_sms_token = Some(TOKEN_A)

(***************************************************************************)
(* C15: the keywords stored in Config are lowercase in every state: a      *)
(* set_keywords stores the parts of its input trimmed, without the empty   *)
(* ones, and converted to lowercase.                                       *)
(***************************************************************************)
C15_StoredKeywordsAreLowercase ==
    \A i \in 1..Len(config.keywords) :
       config.keywords[i] = LowerStr(config.keywords[i])

(***************************************************************************)
(* C16: with a non-empty allow-list, no input of a sender outside the list *)
(* (a command, a menu label or any other text) changes anything: Config,   *)
(* the disk, the pending action of any sender, the job, the ticks.         *)
(***************************************************************************)
C16_Inputs ==
    {ADD_LABEL, CHOOSE_LABEL, DELETE_LABEL, CHAT_LABEL, KEYWORDS_LABEL,
     START_LABEL, STOP_LABEL, SHOW_LABEL, RETURN_MENU,
     TOKEN_A, CHAT_7, KEYWORD_TEXT, OTHER_TEXT}

C16_Outsiders == Senders \ ADMIN_USER_IDS

C16_OutsiderChangesNothing ==
    ADMIN_USER_IDS # {}
    => \A u \in C16_Outsiders :
          ~ENABLED ( /\ \/ HandleStart(u)
                        \/ \E raw \in C16_Inputs : HandleMessage(u, raw, None)
                     /\ vars' # vars )

\* An outsider can send the start button in a state in which the start of an
\* operator would register the job, while an operator has a pending action.
C16_Witness ==
    /\ ENABLED HandleMessage("guest", START_LABEL, None)
    /\ TruthyStr(config.active_sms_token)
    /\ TruthyInt(config.target_chat_id)
    /\ jobs = 0
    /\ op["op1"].mode = "delete_sms_token"

(***************************************************************************)
(* C17: a tick with a qualifying message calls update once, after the last *)
(* message of its batch has been handled, and a tick without qualifying    *)
(* message never calls it: a step of a tick changes Config only when the   *)
(* tick is past its loop, that step ends the tick, and a tick that entered *)
(* the loop ends in no other way while the process lives.                  *)
(***************************************************************************)
\* The step is a step of the tick t.
C17_Steps(t) == tick'[t] # tick[t] /\ prev'.how # "none"

C17_Writes == config' # config \/ disk' # disk

C17_NoUpdateBeforeTheEnd(t) ==
    (C17_Steps(t) /\ tick[t].pc \in {"idle", "fetch", "forward"}) => ~C17_Writes

C17_UpdateAfterLastMessage(t) ==
    EndedAs(t, "persisted")
        => /\ tick[t].pc = "update"
           /\ tick[t].new_messages # <<>>
           /\ tick[t].i = Len(tick[t].new_messages) + 1
           /\ config' = Patched(config, [last_seen_id |-> Some(tick[t].last_seen)])
           /\ disk' = config'

C17_LoopEndsInUpdate(t) ==
    (C17_Steps(t) /\ tick[t].pc \in {"forward", "update"} /\ tick'[t].pc = "idle")
        => EndedAs(t, "persisted")

C17_NothingNewNoUpdate(t) ==
    (EndedAs(t, "nothing_new") \/ EndedAs(t, "fetch_failed"))
        => (tick[t].pc = "fetch" /\ ~C17_Writes)

C17_OneUpdatePerTick ==
    [][\A t \in Ticks :
          /\ C17_NoUpdateBeforeTheEnd(t)
          /\ C17_UpdateAfterLastMessage(t)
          /\ C17_LoopEndsInUpdate(t)
          /\ C17_NothingNewNoUpdate(t)]_vars

\* Both messages of a batch have been handled and the update is still to come.
C17_Witness ==
    /\ tick["t1"].pc = "update"
    /\ Len(tick["t1"].new_messages) = 2
    /\ \A i \in IdsOf(tick["t1"].new_messages) : attempts[i] > 0
    /\ config.last_seen_id = tick["t1"].config.last_seen_id

(***************************************************************************)
(* C18: stop_forwarding prevents the ticks to come and interrupts none.    *)
(* When a stop completes forwarding_enabled is false, and it stays false   *)
(* until a start completes; while it is false no tick that begins goes on  *)
(* to its fetch, and the tick that returns at its guard changes nothing.   *)
(* No step of a stop touches a tick, and a tick in flight can always take  *)
(* its next step, whatever the job and the flag are.                       *)
(***************************************************************************)
C18_StopSteps(u) ==
    \/ op[u].pc = "idle" /\ op'[u].pc = "stop_update"
    \/ op[u].pc = "stop_update" /\ op'[u].pc = "idle"

C18_StopCompletes(u) == op[u].pc = "stop_update" /\ op'[u].pc = "idle"

C18_StartCompletes(u) == op[u].pc = "start_update" /\ op'[u].pc = "idle"

C18_CanGoOn(t) ==
    /\ tick[t].pc = "fetch" => ENABLED TickFetch(t, <<Msg(1)>>)
    /\ tick[t].pc = "forward" => ENABLED TickForward(t, TRUE)
    /\ tick[t].pc = "update" => ENABLED TickUpdate(t)

C18_StopOnlyPreventsFutureTicks ==
    [][/\ \A u \in Ops : C18_StopCompletes(u) => ~config'.forwarding_enabled
       /\ (~config.forwarding_enabled /\ config'.forwarding_enabled)
             => \E u \in Ops : C18_StartCompletes(u)
       /\ \A t \in Ticks :
             (~config.forwarding_enabled /\ tick[t].pc = "idle")
                => tick'[t].pc = "idle"
       /\ C11_Skipped => (config' = config /\ disk' = disk /\ attempts' = attempts)
       /\ \A u \in Ops : C18_StopSteps(u) => tick' = tick
       /\ \A t \in Ticks : C18_CanGoOn(t) /\ C18_CanGoOn(t)']_vars

\* A stop has completed while a tick is in its loop.
C18_Witness ==
    /\ jobs = 0
    /\ ~config.forwarding_enabled
    /\ op["op1"].pc = "idle"
    /\ tick["t1"].pc = "forward"

(***************************************************************************)
(* C19: every field of Config has one class of writer.  A step of a tick   *)
(* changes no field but last_seen_id, so the tick that persists its mark   *)
(* keeps what an operator changed while it was in flight; a step of a      *)
(* handler of an operator never changes last_seen_id, so no switch or      *)
(* deletion of a token resets the mark; poll_interval is never changed.    *)
(***************************************************************************)
C19_OperatorFields == DOMAIN BotConfig \ {"last_seen_id"}

C19_TickSteps == \E t \in Ticks : tick'[t] # tick[t] /\ prev'.how # "none"

C19_OperatorSteps == op' # op /\ tick' = tick

C19_OneWriterPerField ==
    [][/\ C19_TickSteps
             => \A f \in C19_OperatorFields :
                   config'[f] = config[f] /\ disk'[f] = disk[f]
       /\ C19_OperatorSteps
             => /\ config'.last_seen_id = config.last_seen_id
                /\ disk'.last_seen_id = disk.last_seen_id
       /\ config'.poll_interval = config.poll_interval
       /\ \A f \in DOMAIN BotConfig :
             config'[f] # config[f] => (C19_TickSteps \/ C19_OperatorSteps)]_vars

\* A tick is about to persist its mark, and an operator has cleared the active
\* token since the tick read Config.
C19_Witness ==
    /\ tick["t1"].pc = "update"
    /\ tick["t1"].config.active_sms_token # None
    /\ config.active_sms_token = None

(***************************************************************************)
(* C20: the flag and the job queue agree: in every state in which no start *)
(* and no stop is in flight, forwarding_enabled implies that the job is    *)
(* registered, also right after a restart that loads a Config whose        *)
(* forwarding_enabled is true.                                             *)
(***************************************************************************)
C20_Quiet == \A u \in Ops : op[u].pc \notin {"start_update", "stop_update"}

C20_EnabledImpliesRegistered ==
    (C20_Quiet /\ config.forwarding_enabled) => jobs > 0

=============================================================================
